---- MODULE Spec2Model ----
(***************************************************************************)
(* Blog backend (src/app.ts): ten Express request handlers over two        *)
(* Mongoose collections, Users and Posts.  Every handler is a sequence of  *)
(* awaited storage calls; between two awaits of one request any step of    *)
(* any other request may run.  A request is one record of `reqs`; it is    *)
(* appended by the handler's first storage call (or by its 400 response,   *)
(* which precedes every storage call) and stays in `reqs` with its         *)
(* response, so `reqs` is also the history of all responses.               *)
(*                                                                         *)
(* Strings are sequences of one-character strings, so that trimming, the   *)
(* email pattern and the password length are computed, not assumed.        *)
(***************************************************************************)
EXTENDS Integers, Sequences, FiniteSets, TLC

VARIABLES users, posts, nextUserId, nextPostId, reqs

vars == <<users, posts, nextUserId, nextPostId, reqs>>

-----------------------------------------------------------------------------
(* Bounds *)

\* requests issued in one behaviour
MaxReq == 3
\* well-formed ids a client sends: 1..MaxId (next to BadId, and EmptyId in bodies)
MaxId == 2
\* requests issued in one behaviour in which storage calls may fail of themselves
MaxFaultReq == 2

-----------------------------------------------------------------------------
(* Program constants *)

\* minlength: [6, ...] of userSchema.password
MinPasswordLen == 6
\* a path or body id that is a non-empty string but not a 24-hex ObjectId
\* string: it is truthy, and casting it fails
BadId == 0
\* a body userId that is falsy though present: '' (likewise null, 0, false)
EmptyId == -2
\* req.params.id of the routes that have no :id segment
NoId == -1

-----------------------------------------------------------------------------
(* Strings *)

\* the characters String.prototype.trim strips and the regular expression
\* class \s matches (ECMAScript WhiteSpace and LineTerminator): space, tab,
\* line feed, carriage return, form feed, vertical tab, U+00A0, U+1680 and
\* U+FEFF; the remaining members (U+2000 to U+200A, U+2028, U+2029, U+202F,
\* U+205F, U+3000) cannot be written in a string of this module and are not
\* among the inputs
WhiteSpace == {" ", "\t", "\n", "\r", "\f", "", " ", " ", "﻿"}

IsSpace(c) == c \in WhiteSpace

RECURSIVE TrimStart(_)
TrimStart(s) ==
    IF s # <<>> /\ IsSpace(Head(s)) THEN TrimStart(Tail(s)) ELSE s

RECURSIVE TrimEnd(_)
TrimEnd(s) ==
    IF s # <<>> /\ IsSpace(s[Len(s)]) THEN TrimEnd(SubSeq(s, 1, Len(s) - 1)) ELSE s

\* `trim: true` of a String path: String.prototype.trim on every set and on
\* every query filter
Trim(s) == TrimEnd(TrimStart(s))

\* /^\S+@\S+\.\S+$/ : no whitespace at all, and an "@" and a later "." with at
\* least one character before, between and after them
MatchEmail(s) ==
    /\ \A k \in 1..Len(s) : ~IsSpace(s[k])
    /\ \E i \in 1..Len(s), j \in 1..Len(s) :
          /\ s[i] = "@"
          /\ s[j] = "."
          /\ i >= 2
          /\ j >= i + 2
          /\ j <= Len(s) - 1

-----------------------------------------------------------------------------
(* Request bodies: a body is a function from the field names it carries *)

Has(body, f) == f \in DOMAIN body

\* a mutant of Falsy: a presence check that tests `=== undefined` only
FalsyAbsent(body, f) == ~Has(body, f)

\* JavaScript `!body.f` for a string or id field: absent (undefined) or ""
Falsy(body, f) == ~Has(body, f) \/ body[f] = <<>>

\* `!userId` : absent, or present and falsy (''); any non-empty string is
\* truthy whether castable or not
FalsyId(body, f) == ~Has(body, f) \/ body[f] = EmptyId

NoBody == <<>>

-----------------------------------------------------------------------------
(* Responses *)

Json(status, kind, text, docs) ==
    [status |-> status, kind |-> kind, text |-> text, docs |-> docs]

NoResponse == Json(0, "none", "", {})

\* a mutant of Caught: a handler whose catch block sends nothing
CaughtSilent(text) == NoResponse

\* the catch block of every handler
Caught(text) == Json(500, "message", text, {})

\* a request record
Req(op, id, body, pc, resp, sent, ops, failed, loaded) ==
    [op |-> op, id |-> id, body |-> body, pc |-> pc, resp |-> resp,
     sent |-> sent, ops |-> ops, failed |-> failed, loaded |-> loaded]

\* a handler that responds: one more response sent
Respond(r, resp, ops, failed) ==
    [r EXCEPT !.pc = "done", !.resp = resp, !.sent = r.sent + 1,
              !.ops = r.ops + ops, !.failed = failed]

\* a handler that awaits its next storage call
Await(r, pc, ops, loaded) ==
    [r EXCEPT !.pc = pc, !.ops = r.ops + ops, !.loaded = loaded]

New(op, id, body) == Req(op, id, body, "start", NoResponse, 0, 0, FALSE, <<>>)

\* a run issues at most n requests
CanStart(n) == Len(reqs) < n

-----------------------------------------------------------------------------
(* Users: schema *)

\* the document as User.find / findById returns it (password: select false)
UserView(i, u) ==
    [id |-> i, firstName |-> u.firstName, lastName |-> u.lastName,
     email |-> u.email, isActive |-> u.isActive]

\* the document as User.create returns it
UserCreated(i, u) ==
    [id |-> i, firstName |-> u.firstName, lastName |-> u.lastName,
     email |-> u.email, password |-> u.password, isActive |-> u.isActive]

\* setters and defaults of userSchema applied to a create body
CastUser(body) ==
    [firstName |-> Trim(body.firstName),
     lastName  |-> Trim(body.lastName),
     email     |-> Trim(body.email),
     password  |-> body.password,
     isActive  |-> IF Has(body, "isActive") THEN body.isActive ELSE TRUE]

\* required / match validators of the three selected String paths
ValidNames(u) ==
    /\ u.firstName # <<>>
    /\ u.lastName # <<>>
    /\ u.email # <<>>
    /\ MatchEmail(u.email)

\* required and minlength validators of password
ValidPassword(p) == p # <<>> /\ Len(p) >= MinPasswordLen

\* a mutant of EmailFree: the collection without the unique index
EmailFreeNoIndex(us, self, email) == TRUE

\* unique index on email: no other stored user holds `email`
EmailFree(us, self, email) ==
    \A i \in DOMAIN us : i # self => us[i].email # email

\* a mutant of FindByEmail: createUser without its pre-check
FindByEmailNone(us, email) == {}

\* User.findOne({ email }): the filter is cast with the path's setters
FindByEmail(us, email) == {i \in DOMAIN us : us[i].email = Trim(email)}

Insert(coll, i, doc) == [k \in DOMAIN coll \cup {i} |-> IF k = i THEN doc ELSE coll[k]]

\* a mutant of Remove: findById where findByIdAndDelete was meant
RemoveNothing(coll, i) == coll

\* findByIdAndDelete's removal
Remove(coll, i) == [k \in DOMAIN coll \ {i} |-> coll[k]]

\* the paths save() sends in $set: those whose assigned value differs from the
\* value the document was loaded with
Modified(loaded, new) == {fld \in DOMAIN new : new[fld] # loaded[fld]}

\* $set: delta applied to the stored document
Patch(stored, new, delta) ==
    [fld \in DOMAIN stored |-> IF fld \in delta /\ fld \in DOMAIN new
                                THEN new[fld] ELSE stored[fld]]

\* a mutant of Matched: save() that takes a write matching no document for done
MatchedAlways(coll, i) == TRUE

\* save() of a loaded document: updateOne({ _id }) reports matchedCount > 0,
\* otherwise save() throws DocumentNotFoundError
Matched(coll, i) == i \in DOMAIN coll

\* updateOne({ _id }, { $set: delta }): no upsert
UpdateOne(coll, i, new, delta) ==
    IF i \in DOMAIN coll THEN [coll EXCEPT ![i] = Patch(coll[i], new, delta)] ELSE coll

-----------------------------------------------------------------------------
(* Users: handlers.  `f` is TRUE when the storage call of the step fails for *)
(* a reason of its own (connection lost, server error).                     *)

MsgUserRequired == "firstName, lastName, email, and password are required"
MsgUserUpdateRequired == "firstName, lastName, and email are required"
MsgUserExists == "User already exists"
MsgUserNotFound == "User not found"
MsgUserDeleted == "User deleted"
MsgStorage == "storage failure"
MsgCast == "Cast to ObjectId failed"
MsgUserValidation == "User validation failed"
MsgDuplicate == "E11000 duplicate key error"
MsgNoDocument == "No document found for query"

\* getUsers: User.find()
GetUsers(n, f) ==
    /\ CanStart(n)
    /\ LET r == New("getUsers", NoId, NoBody) IN
       reqs' = Append(reqs,
          IF f THEN Respond(r, Caught(MsgStorage), 1, TRUE)
          ELSE Respond(r, Json(200, "list", "",
                       {UserView(i, users[i]) : i \in DOMAIN users}), 1, FALSE))
    /\ UNCHANGED <<users, posts, nextUserId, nextPostId>>

\* createUser up to its first await: presence check, then User.findOne
CreateUser(n, body, f) ==
    /\ CanStart(n)
    /\ LET r == New("createUser", NoId, body) IN
       reqs' = Append(reqs,
          IF Falsy(body, "firstName") \/ Falsy(body, "lastName")
             \/ Falsy(body, "email") \/ Falsy(body, "password")
          THEN Respond(r, Json(400, "error", MsgUserRequired, {}), 0, FALSE)
          ELSE IF f THEN Respond(r, Caught(MsgStorage), 1, TRUE)
          ELSE IF FindByEmail(users, body.email) # {}
          THEN Respond(r, Json(400, "error", MsgUserExists, {}), 1, FALSE)
          ELSE Await(r, "create", 1, <<>>))
    /\ UNCHANGED <<users, posts, nextUserId, nextPostId>>

\* createUser after findOne found nothing: User.create
CreateUserWrite(k, f) ==
    /\ k \in DOMAIN reqs
    /\ reqs[k].op = "createUser"
    /\ reqs[k].pc = "create"
    /\ LET r == reqs[k]
           doc == CastUser(r.body)
       IN IF f
          THEN /\ reqs' = [reqs EXCEPT ![k] = Respond(r, Caught(MsgStorage), 1, TRUE)]
               /\ UNCHANGED <<users, nextUserId>>
          ELSE IF ~(ValidNames(doc) /\ ValidPassword(doc.password))
          THEN /\ reqs' = [reqs EXCEPT ![k] = Respond(r, Caught(MsgUserValidation), 1, TRUE)]
               /\ UNCHANGED <<users, nextUserId>>
          ELSE IF ~EmailFree(users, NoId, doc.email)
          THEN /\ reqs' = [reqs EXCEPT ![k] = Respond(r, Caught(MsgDuplicate), 1, TRUE)]
               /\ UNCHANGED <<users, nextUserId>>
          ELSE /\ users' = Insert(users, nextUserId, doc)
               /\ nextUserId' = nextUserId + 1
               /\ reqs' = [reqs EXCEPT ![k] =
                     Respond(r, Json(200, "doc", "", {UserCreated(nextUserId, doc)}), 1, FALSE)]
    /\ UNCHANGED <<posts, nextPostId>>

\* getUserById: User.findById
GetUserById(n, id, f) ==
    /\ CanStart(n)
    /\ LET r == New("getUserById", id, NoBody) IN
       reqs' = Append(reqs,
          IF f THEN Respond(r, Caught(MsgStorage), 1, TRUE)
          ELSE IF id = BadId THEN Respond(r, Caught(MsgCast), 1, TRUE)
          ELSE IF id \notin DOMAIN users
          THEN Respond(r, Json(404, "error", MsgUserNotFound, {}), 1, FALSE)
          ELSE Respond(r, Json(200, "doc", "", {UserView(id, users[id])}), 1, FALSE))
    /\ UNCHANGED <<users, posts, nextUserId, nextPostId>>

\* updateUser up to its first await: presence check, then User.findById
UpdateUser(n, id, body, f) ==
    /\ CanStart(n)
    /\ LET r == New("updateUser", id, body) IN
       reqs' = Append(reqs,
          IF Falsy(body, "firstName") \/ Falsy(body, "lastName") \/ Falsy(body, "email")
          THEN Respond(r, Json(400, "error", MsgUserUpdateRequired, {}), 0, FALSE)
          ELSE IF f THEN Respond(r, Caught(MsgStorage), 1, TRUE)
          ELSE IF id = BadId THEN Respond(r, Caught(MsgCast), 1, TRUE)
          ELSE IF id \notin DOMAIN users
          THEN Respond(r, Json(404, "error", MsgUserNotFound, {}), 1, FALSE)
          ELSE Await(r, "save", 1, UserView(id, users[id])))
    /\ UNCHANGED <<users, posts, nextUserId, nextPostId>>

\* a mutant of AssignUser: every field of the body assigned to the document
AssignUserAll(loaded, body) ==
    [fld \in DOMAIN loaded |->
        IF fld \in {"firstName", "lastName", "email"} THEN Trim(body[fld])
        ELSE IF fld \in DOMAIN body THEN body[fld] ELSE loaded[fld]]

\* the document of updateUser after its three assignments
AssignUser(loaded, body) ==
    [loaded EXCEPT !.firstName = Trim(body.firstName),
                   !.lastName = Trim(body.lastName),
                   !.email = Trim(body.email)]

\* updateUser after findById found the user: the assignments, then user.save()
UpdateUserSave(k, f) ==
    /\ k \in DOMAIN reqs
    /\ reqs[k].op = "updateUser"
    /\ reqs[k].pc = "save"
    /\ LET r == reqs[k]
           new == AssignUser(r.loaded, r.body)
           delta == Modified(r.loaded, new)
       IN IF f
          THEN /\ reqs' = [reqs EXCEPT ![k] = Respond(r, Caught(MsgStorage), 1, TRUE)]
               /\ UNCHANGED users
          ELSE IF ~ValidNames(new)
          THEN /\ reqs' = [reqs EXCEPT ![k] = Respond(r, Caught(MsgUserValidation), 1, TRUE)]
               /\ UNCHANGED users
          ELSE IF ~Matched(users, r.id)
          THEN /\ reqs' = [reqs EXCEPT ![k] = Respond(r, Caught(MsgNoDocument), 1, TRUE)]
               /\ UNCHANGED users
          ELSE IF "email" \in delta /\ ~EmailFree(users, r.id, new.email)
          THEN /\ reqs' = [reqs EXCEPT ![k] = Respond(r, Caught(MsgDuplicate), 1, TRUE)]
               /\ UNCHANGED users
          ELSE /\ users' = UpdateOne(users, r.id, new, delta)
               /\ reqs' = [reqs EXCEPT ![k] = Respond(r, Json(200, "doc", "", {new}), 1, FALSE)]
    /\ UNCHANGED <<posts, nextUserId, nextPostId>>

\* deleteUser: User.findByIdAndDelete
DeleteUser(n, id, f) ==
    /\ CanStart(n)
    /\ LET r == New("deleteUser", id, NoBody) IN
       IF f
       THEN /\ reqs' = Append(reqs, Respond(r, Caught(MsgStorage), 1, TRUE))
            /\ UNCHANGED users
       ELSE IF id = BadId
       THEN /\ reqs' = Append(reqs, Respond(r, Caught(MsgCast), 1, TRUE))
            /\ UNCHANGED users
       ELSE IF id \notin DOMAIN users
       THEN /\ reqs' = Append(reqs, Respond(r, Json(404, "error", MsgUserNotFound, {}), 1, FALSE))
            /\ UNCHANGED users
       ELSE /\ users' = Remove(users, id)
            /\ reqs' = Append(reqs, Respond(r, Json(200, "message", MsgUserDeleted, {}), 1, FALSE))
    /\ UNCHANGED <<posts, nextUserId, nextPostId>>

-----------------------------------------------------------------------------
(* Posts: schema *)

MsgPostRequired == "title, content, and userId are required"
MsgPostNotFound == "Post not found"
MsgPostDeleted == "Post deleted"
MsgPostValidation == "Post validation failed"

\* the document as Post.find / findById / create returns it, userId unresolved
PostView(i, p) == [id |-> i, title |-> p.title, content |-> p.content, userId |-> p.userId]

\* the fields populate selects: 'firstName lastName email' (and _id)
AuthorView(i, u) ==
    [id |-> i, firstName |-> u.firstName, lastName |-> u.lastName, email |-> u.email]

\* populate's result for a reference that resolves to no user: null
Null == {}

\* a mutant of Populate: a missing author rendered as the raw id
PopulateRaw(view, us) ==
    [view EXCEPT !.userId = IF view.userId \in DOMAIN us
                            THEN {AuthorView(view.userId, us[view.userId])}
                            ELSE {[id |-> view.userId]}]

\* populate('userId', 'firstName lastName email'): the referenced user's
\* selected fields, or null
Populate(view, us) ==
    [view EXCEPT !.userId = IF view.userId \in DOMAIN us
                            THEN {AuthorView(view.userId, us[view.userId])}
                            ELSE Null]

\* setters of postSchema applied to a body
CastPost(body) ==
    [title |-> Trim(body.title), content |-> Trim(body.content), userId |-> body.userId]

\* a mutant of ValidPost: the author must exist
ValidPostAuthor(p) ==
    p.title # <<>> /\ p.content # <<>> /\ p.userId \in DOMAIN users

\* required validators of title and content; userId must cast to an ObjectId
ValidPost(p) == p.title # <<>> /\ p.content # <<>> /\ p.userId # BadId

PostMissing(body) ==
    Falsy(body, "title") \/ Falsy(body, "content") \/ FalsyId(body, "userId")

-----------------------------------------------------------------------------
(* Posts: handlers *)

\* getPosts up to populate: Post.find()
GetPosts(n, f) ==
    /\ CanStart(n)
    /\ LET r == New("getPosts", NoId, NoBody) IN
       reqs' = Append(reqs,
          IF f THEN Respond(r, Caught(MsgStorage), 1, TRUE)
          ELSE Await(r, "populate", 1, {PostView(i, posts[i]) : i \in DOMAIN posts}))
    /\ UNCHANGED <<users, posts, nextUserId, nextPostId>>

\* getPosts: populate of the posts found, then the response
GetPostsPopulate(k, f) ==
    /\ k \in DOMAIN reqs
    /\ reqs[k].op = "getPosts"
    /\ reqs[k].pc = "populate"
    /\ LET r == reqs[k] IN
       reqs' = [reqs EXCEPT ![k] =
          IF f THEN Respond(r, Caught(MsgStorage), 1, TRUE)
          ELSE Respond(r, Json(200, "list", "",
                       {Populate(v, users) : v \in r.loaded}), 1, FALSE)]
    /\ UNCHANGED <<users, posts, nextUserId, nextPostId>>

\* createPost up to populate: presence check, then Post.create
CreatePost(n, body, f) ==
    /\ CanStart(n)
    /\ LET r == New("createPost", NoId, body) IN
       IF PostMissing(body)
       THEN /\ reqs' = Append(reqs, Respond(r, Json(400, "error", MsgPostRequired, {}), 0, FALSE))
            /\ UNCHANGED <<posts, nextPostId>>
       ELSE IF f
       THEN /\ reqs' = Append(reqs, Respond(r, Caught(MsgStorage), 1, TRUE))
            /\ UNCHANGED <<posts, nextPostId>>
       ELSE IF ~ValidPost(CastPost(body))
       THEN /\ reqs' = Append(reqs, Respond(r, Caught(MsgPostValidation), 1, TRUE))
            /\ UNCHANGED <<posts, nextPostId>>
       ELSE /\ posts' = Insert(posts, nextPostId, CastPost(body))
            /\ nextPostId' = nextPostId + 1
            /\ reqs' = Append(reqs, Await(r, "populate", 1, PostView(nextPostId, CastPost(body))))
    /\ UNCHANGED <<users, nextUserId>>

\* populate of one document held by request k, then the response
PopulateOne(k, op, f) ==
    /\ k \in DOMAIN reqs
    /\ reqs[k].op = op
    /\ reqs[k].pc = "populate"
    /\ LET r == reqs[k] IN
       reqs' = [reqs EXCEPT ![k] =
          IF f THEN Respond(r, Caught(MsgStorage), 1, TRUE)
          ELSE Respond(r, Json(200, "doc", "", {Populate(r.loaded, users)}), 1, FALSE)]
    /\ UNCHANGED <<users, posts, nextUserId, nextPostId>>

\* createPost: post.populate, then the response
CreatePostPopulate(k, f) == PopulateOne(k, "createPost", f)

\* getPostById up to populate: Post.findById
GetPostById(n, id, f) ==
    /\ CanStart(n)
    /\ LET r == New("getPostById", id, NoBody) IN
       reqs' = Append(reqs,
          IF f THEN Respond(r, Caught(MsgStorage), 1, TRUE)
          ELSE IF id = BadId THEN Respond(r, Caught(MsgCast), 1, TRUE)
          ELSE IF id \notin DOMAIN posts
          THEN Respond(r, Json(404, "error", MsgPostNotFound, {}), 1, FALSE)
          ELSE Await(r, "populate", 1, PostView(id, posts[id])))
    /\ UNCHANGED <<users, posts, nextUserId, nextPostId>>

\* getPostById: populate of the post found, then the response
GetPostByIdPopulate(k, f) == PopulateOne(k, "getPostById", f)

\* updatePost up to its first await: presence check, then Post.findById
UpdatePost(n, id, body, f) ==
    /\ CanStart(n)
    /\ LET r == New("updatePost", id, body) IN
       reqs' = Append(reqs,
          IF PostMissing(body)
          THEN Respond(r, Json(400, "error", MsgPostRequired, {}), 0, FALSE)
          ELSE IF f THEN Respond(r, Caught(MsgStorage), 1, TRUE)
          ELSE IF id = BadId THEN Respond(r, Caught(MsgCast), 1, TRUE)
          ELSE IF id \notin DOMAIN posts
          THEN Respond(r, Json(404, "error", MsgPostNotFound, {}), 1, FALSE)
          ELSE Await(r, "save", 1, PostView(id, posts[id])))
    /\ UNCHANGED <<users, posts, nextUserId, nextPostId>>

\* the document of updatePost after its three assignments
AssignPost(loaded, body) ==
    [loaded EXCEPT !.title = Trim(body.title),
                   !.content = Trim(body.content),
                   !.userId = body.userId]

\* updatePost after findById found the post: the assignments, then post.save()
UpdatePostSave(k, f) ==
    /\ k \in DOMAIN reqs
    /\ reqs[k].op = "updatePost"
    /\ reqs[k].pc = "save"
    /\ LET r == reqs[k]
           new == AssignPost(r.loaded, r.body)
           delta == Modified(r.loaded, new)
       IN IF f
          THEN /\ reqs' = [reqs EXCEPT ![k] = Respond(r, Caught(MsgStorage), 1, TRUE)]
               /\ UNCHANGED posts
          ELSE IF ~ValidPost(new)
          THEN /\ reqs' = [reqs EXCEPT ![k] = Respond(r, Caught(MsgPostValidation), 1, TRUE)]
               /\ UNCHANGED posts
          ELSE IF ~Matched(posts, r.id)
          THEN /\ reqs' = [reqs EXCEPT ![k] = Respond(r, Caught(MsgNoDocument), 1, TRUE)]
               /\ UNCHANGED posts
          ELSE /\ posts' = UpdateOne(posts, r.id, new, delta)
               /\ reqs' = [reqs EXCEPT ![k] = Await(r, "populate", 1, new)]
    /\ UNCHANGED <<users, nextUserId, nextPostId>>

\* updatePost: post.populate, then the response
UpdatePostPopulate(k, f) == PopulateOne(k, "updatePost", f)

\* deletePost: Post.findByIdAndDelete
DeletePost(n, id, f) ==
    /\ CanStart(n)
    /\ LET r == New("deletePost", id, NoBody) IN
       IF f
       THEN /\ reqs' = Append(reqs, Respond(r, Caught(MsgStorage), 1, TRUE))
            /\ UNCHANGED posts
       ELSE IF id = BadId
       THEN /\ reqs' = Append(reqs, Respond(r, Caught(MsgCast), 1, TRUE))
            /\ UNCHANGED posts
       ELSE IF id \notin DOMAIN posts
       THEN /\ reqs' = Append(reqs, Respond(r, Json(404, "error", MsgPostNotFound, {}), 1, FALSE))
            /\ UNCHANGED posts
       ELSE /\ posts' = Remove(posts, id)
            /\ reqs' = Append(reqs, Respond(r, Json(200, "message", MsgPostDeleted, {}), 1, FALSE))
    /\ UNCHANGED <<users, nextUserId, nextPostId>>

-----------------------------------------------------------------------------
(* Inputs *)

Ann == <<"A">>
Bob == <<"B">>
BobPadded == <<"\t", "B">>
Blank == <<" ", "\t">>
Lee == <<"L">>
Mail1 == <<"a", "@", "b", ".", "c">>
Mail1Padded == <<" ", "a", "@", "b", ".", "c", "\n">>
Mail2 == <<"d", "@", "e", ".", "f">>
MailNoAt == <<"a", "b", ".", "c">>
MailTabbed == <<"a", "\t", "b", "@", "c", ".", "d">>
Secret == <<"s", "e", "c", "r", "e", "t">>
Passwd == <<"p", "a", "s", "s", "w", "d">>
Short == <<"s", "h", "o", "r", "t">>
Title == <<"T">>
TitlePadded == <<"U", "\r">>
Text == <<"C">>

UserBody(fn, ln, em, pw) == [firstName |-> fn, lastName |-> ln, email |-> em, password |-> pw]

\* bodies of POST /users
CreateUserBodies ==
    { UserBody(Ann, Lee, Mail1, Secret),
      UserBody(BobPadded, Lee, Mail1Padded, Passwd) @@ [isActive |-> FALSE],
      UserBody(Bob, Lee, Mail2, Secret),
      UserBody(Ann, Lee, Mail2, Short),
      UserBody(Ann, Lee, MailNoAt, Secret),
      UserBody(Blank, Lee, Mail2, Secret),
      [firstName |-> Ann, lastName |-> Lee, email |-> Mail2],
      UserBody(Ann, Lee, <<>>, Secret) }

\* bodies of PUT /users/:id
UpdateUserBodies ==
    { [firstName |-> Bob, lastName |-> Lee, email |-> Mail1],
      [firstName |-> Ann, lastName |-> Bob, email |-> Mail1],
      [firstName |-> BobPadded, lastName |-> Lee, email |-> Mail2,
       password |-> Passwd, isActive |-> FALSE],
      [firstName |-> Ann, lastName |-> Lee, email |-> MailTabbed],
      [firstName |-> Ann, lastName |-> Blank, email |-> Mail1],
      [firstName |-> Ann, email |-> Mail1],
      [firstName |-> <<>>, lastName |-> Lee, email |-> Mail1] }

\* ids a client sends
Ids == {BadId} \cup (1..MaxId)

\* bodies of POST /posts and PUT /posts/:id
PostBodies ==
    { [title |-> Title, content |-> Text, userId |-> i] : i \in Ids }
    \cup { [title |-> TitlePadded, content |-> Text, userId |-> 1],
           [title |-> Blank, content |-> Text, userId |-> 1],
           [title |-> Title, content |-> Text],
           [title |-> Title, content |-> Text, userId |-> EmptyId],
           [title |-> Title, content |-> <<>>, userId |-> 1] }

\* the bodies of the runs in which storage calls may fail of themselves
FaultCreateUserBodies ==
    { UserBody(Ann, Lee, Mail1, Secret),
      UserBody(Bob, Lee, Mail2, Short),
      [firstName |-> Ann, lastName |-> Lee, email |-> Mail2] }

FaultUpdateUserBodies ==
    { [firstName |-> BobPadded, lastName |-> Lee, email |-> Mail2],
      [firstName |-> Ann, lastName |-> Lee, email |-> MailNoAt],
      [firstName |-> Ann, email |-> Mail1] }

FaultPostBodies ==
    { [title |-> TitlePadded, content |-> Text, userId |-> 1],
      [title |-> Title, content |-> Text, userId |-> BadId],
      [title |-> Title, content |-> Text, userId |-> EmptyId],
      [title |-> Title, content |-> Text] }

-----------------------------------------------------------------------------
(* Initial state: the connection is up (src/app.ts 18-26) and the database *)
(* holds what earlier runs left in it.                                     *)

Stored1 == [firstName |-> Ann, lastName |-> Lee, email |-> Mail1,
            password |-> Secret, isActive |-> TRUE]

InitialUsers == { <<>>, <<Stored1>> }

InitialPosts == { <<>>, <<[title |-> Title, content |-> Text, userId |-> 1]>> }

Init ==
    /\ users \in InitialUsers
    /\ posts \in InitialPosts
    /\ nextUserId = Len(users) + 1
    /\ nextPostId = Len(posts) + 1
    /\ reqs = <<>>

-----------------------------------------------------------------------------
(* Next-state relations *)

\* the five user routes (src/app.ts 276-280), with storage faults F, create
\* bodies CB and update bodies UB
UserNext(n, F, CB, UB) ==
    \/ \E f \in F : GetUsers(n, f)
    \/ \E b \in CB, f \in F : CreateUser(n, b, f)
    \/ \E k \in 1..n, f \in F : CreateUserWrite(k, f)
    \/ \E i \in Ids, f \in F : GetUserById(n, i, f)
    \/ \E i \in Ids, b \in UB, f \in F : UpdateUser(n, i, b, f)
    \/ \E k \in 1..n, f \in F : UpdateUserSave(k, f)
    \/ \E i \in Ids, f \in F : DeleteUser(n, i, f)

\* the five post routes (src/app.ts 281-285), with storage faults F and bodies PB
PostNext(n, F, PB) ==
    \/ \E f \in F : GetPosts(n, f)
    \/ \E k \in 1..n, f \in F : GetPostsPopulate(k, f)
    \/ \E b \in PB, f \in F : CreatePost(n, b, f)
    \/ \E k \in 1..n, f \in F : CreatePostPopulate(k, f)
    \/ \E i \in Ids, f \in F : GetPostById(n, i, f)
    \/ \E k \in 1..n, f \in F : GetPostByIdPopulate(k, f)
    \/ \E i \in Ids, b \in PB, f \in F : UpdatePost(n, i, b, f)
    \/ \E k \in 1..n, f \in F : UpdatePostSave(k, f)
    \/ \E k \in 1..n, f \in F : UpdatePostPopulate(k, f)
    \/ \E i \in Ids, f \in F : DeletePost(n, i, f)

\* storage calls fail only for the reasons the handlers' inputs give them
\* (validation, cast, duplicate key, no document)
Next ==
    \/ UserNext(MaxReq, {FALSE}, CreateUserBodies, UpdateUserBodies)
    \/ PostNext(MaxReq, {FALSE}, PostBodies)

Spec == Init /\ [][Next]_vars

\* any storage call may also fail for a reason of its own
NextFault ==
    \/ UserNext(MaxFaultReq, BOOLEAN, FaultCreateUserBodies, FaultUpdateUserBodies)
    \/ PostNext(MaxFaultReq, BOOLEAN, FaultPostBodies)

\* the storage call request k awaits returns or throws
Continue(k) ==
    \E f \in BOOLEAN :
        \/ CreateUserWrite(k, f)
        \/ UpdateUserSave(k, f)
        \/ GetPostsPopulate(k, f)
        \/ CreatePostPopulate(k, f)
        \/ GetPostByIdPopulate(k, f)
        \/ UpdatePostSave(k, f)
        \/ UpdatePostPopulate(k, f)

\* Every awaited storage call settles (the driver resolves or rejects it) and
\* the event loop then runs the handler's continuation.
SpecFault == Init /\ [][NextFault]_vars /\ \A k \in 1..MaxFaultReq : WF_vars(Continue(k))

-----------------------------------------------------------------------------
(* Vocabulary of the properties *)

\* this step issued a request of handler op (its record is the last of reqs')
Starts(op) ==
    /\ Len(reqs') = Len(reqs) + 1
    /\ reqs'[Len(reqs')].op = op

Issued == reqs'[Len(reqs')]

\* this step resumed request k of handler op, which awaited at pc
Resumes(k, op, pc) ==
    /\ k \in DOMAIN reqs
    /\ reqs[k].op = op
    /\ reqs[k].pc = pc
    /\ reqs'[k] # reqs[k]

\* this step is the one in which request k responds
Responds(k) ==
    /\ k \in DOMAIN reqs'
    /\ reqs'[k].pc = "done"
    /\ k \in DOMAIN reqs => reqs[k].pc # "done"

Lacks(b, fld) == fld \notin DOMAIN b \/ b[fld] = <<>>

LacksUserField(b) ==
    Lacks(b, "firstName") \/ Lacks(b, "lastName") \/ Lacks(b, "email")

LacksRequired(r) ==
    CASE r.op = "createUser" -> LacksUserField(r.body) \/ Lacks(r.body, "password")
      [] r.op = "updateUser" -> LacksUserField(r.body)
      [] r.op \in {"createPost", "updatePost"} ->
            \/ Lacks(r.body, "title")
            \/ Lacks(r.body, "content")
            \/ "userId" \notin DOMAIN r.body
            \/ r.body.userId = EmptyId
      [] OTHER -> FALSE

Finished(k, op, status) ==
    /\ k \in DOMAIN reqs
    /\ reqs[k].op = op
    /\ reqs[k].pc = "done"
    /\ reqs[k].resp.status = status

HoldersOf(email) == {i \in DOMAIN users : users[i].email = email}

\* ids of the records a delete request has removed
DeletedUserIds == {reqs[k].id : k \in {j \in DOMAIN reqs : Finished(j, "deleteUser", 200)}}
DeletedPostIds == {reqs[k].id : k \in {j \in DOMAIN reqs : Finished(j, "deletePost", 200)}}

\* what the schema accepts of a create body, spelled out
Spaceless(s) == \A n \in 1..Len(s) : s[n] \notin WhiteSpace

Stripped(s) ==
    IF \E n \in 1..Len(s) : s[n] \notin WhiteSpace
    THEN LET a == CHOOSE n \in 1..Len(s) :
                    s[n] \notin WhiteSpace /\ \A m \in 1..(n - 1) : s[m] \in WhiteSpace
             z == CHOOSE n \in 1..Len(s) :
                    s[n] \notin WhiteSpace /\ \A m \in (n + 1)..Len(s) : s[m] \in WhiteSpace
         IN SubSeq(s, a, z)
    ELSE <<>>

EmailShaped(s) ==
    /\ Spaceless(s)
    /\ \E i \in 2..Len(s) : s[i] = "@" /\ \E j \in (i + 2)..(Len(s) - 1) : s[j] = "."

AcceptableNames(b) ==
    /\ Stripped(b.firstName) # <<>>
    /\ Stripped(b.lastName) # <<>>
    /\ EmailShaped(Stripped(b.email))

AcceptableUser(b) == AcceptableNames(b) /\ Len(b.password) >= 6

-----------------------------------------------------------------------------
(* C1 *)

\* C1: in every reachable state no two stored users have the same email,
\* whatever the interleaving of createUser, updateUser and deleteUser steps.
C1_UniqueEmail ==
    \A i, j \in DOMAIN users : i # j => users[i].email # users[j].email

\* two createUser requests for one email both passed findOne; the unique index
\* let one insert and rejected the other
C1_Witness ==
    \E k, l \in DOMAIN reqs :
        /\ Finished(k, "createUser", 200)
        /\ Finished(l, "createUser", 500)
        /\ reqs[l].resp.text = MsgDuplicate
        /\ Stripped(reqs[k].body.email) = Stripped(reqs[l].body.email)

-----------------------------------------------------------------------------
(* C2 *)

\* C2 as stated (emails compared as stored, that is trimmed): a createUser
\* with all four fields whose email is the email of a stored user responds 400
\* 'User already exists' and changes nothing; one whose email no stored user
\* holds, the only request there is, responds 200 and adds exactly one user.
C2_AsClaimed ==
    [][\A k \in DOMAIN reqs' :
          (/\ Responds(k)
           /\ reqs'[k].op = "createUser"
           /\ ~LacksRequired(reqs'[k]))
          => /\ HoldersOf(Stripped(reqs'[k].body.email)) # {}
                => /\ reqs'[k].resp = Json(400, "error", MsgUserExists, {})
                   /\ users' = users
             /\ (HoldersOf(Stripped(reqs'[k].body.email)) = {} /\ Len(reqs') = 1)
                => /\ reqs'[k].resp.status = 200
                   /\ Cardinality(DOMAIN users') = Cardinality(DOMAIN users) + 1]_vars

\* C2, amended: a createUser with all four fields whose trimmed email is held
\* by a stored user when findOne runs responds 400 'User already exists' and
\* changes nothing; one that reaches User.create with fields the schema
\* accepts and a trimmed email no stored user holds responds 200 and adds
\* exactly one user, under an id no user has had.
C2_CreateUser ==
    [][/\ (Starts("createUser") /\ ~LacksRequired(Issued)
            /\ HoldersOf(Stripped(Issued.body.email)) # {})
          => /\ Issued.pc = "done"
             /\ Issued.resp = Json(400, "error", MsgUserExists, {})
             /\ users' = users
       /\ \A k \in DOMAIN reqs :
            (/\ Resumes(k, "createUser", "create")
             /\ AcceptableUser(reqs[k].body)
             /\ HoldersOf(Stripped(reqs[k].body.email)) = {})
            => /\ reqs'[k].pc = "done"
               /\ reqs'[k].resp.status = 200
               /\ \E i \in DOMAIN users' :
                    /\ i \notin DOMAIN users
                    /\ i \notin DeletedUserIds
                    /\ DOMAIN users' = DOMAIN users \cup {i}
                    /\ \A j \in DOMAIN users : users'[j] = users[j]
                    /\ users'[i].email = Stripped(reqs[k].body.email)
                    /\ users'[i].password = reqs[k].body.password
                    /\ \A d \in reqs'[k].resp.docs : d.id = i]_vars

\* one createUser was refused by the pre-check and another one inserted
C2_Witness ==
    \E k, l \in DOMAIN reqs :
        /\ Finished(k, "createUser", 400)
        /\ reqs[k].resp.text = MsgUserExists
        /\ Finished(l, "createUser", 200)

-----------------------------------------------------------------------------
(* C3 *)

Creates(e) ==
    {k \in DOMAIN reqs : /\ reqs[k].op = "createUser"
                         /\ ~LacksRequired(reqs[k])
                         /\ Stripped(reqs[k].body.email) = e}

CreateEmails ==
    {Stripped(reqs[k].body.email) :
        k \in {j \in DOMAIN reqs : reqs[j].op = "createUser" /\ ~LacksRequired(reqs[j])}}

OnlyCreates == \A k \in DOMAIN reqs : reqs[k].op \notin {"updateUser", "deleteUser"}

AllDone(K) == \A k \in K : reqs[k].pc = "done"

Winners(e) == {k \in Creates(e) : reqs[k].resp.status = 200}

\* C3 as stated: createUser requests for one email, run in any interleaving,
\* end with at most one 200 and exactly one user with that email stored; the
\* others get 400 or 500.
C3_AsClaimed ==
    OnlyCreates =>
        \A e \in CreateEmails :
            (Cardinality(Creates(e)) >= 2 /\ AllDone(Creates(e)))
            => /\ Cardinality(Winners(e)) <= 1
               /\ Cardinality(HoldersOf(e)) = 1
               /\ \A k \in Creates(e) \ Winners(e) : reqs[k].resp.status \in {400, 500}

\* C3, amended: createUser requests for one (trimmed) email, run in any
\* interleaving with no updateUser or deleteUser, end with at most one 200
\* and at most one user with that email stored, exactly one if one of the
\* requests carries fields the schema accepts; every other request gets 400
\* or 500, and a createUser that does not respond 200 adds no user.
C3_ConcurrentCreate ==
    /\ [](OnlyCreates =>
            \A e \in CreateEmails :
                /\ Cardinality(Winners(e)) <= 1
                /\ Cardinality(HoldersOf(e)) <= 1
                /\ Winners(e) # {} => Cardinality(HoldersOf(e)) = 1
                /\ (AllDone(Creates(e)) /\ \E k \in Creates(e) : AcceptableUser(reqs[k].body))
                      => Cardinality(HoldersOf(e)) = 1
                /\ \A k \in Creates(e) \ Winners(e) :
                      reqs[k].pc = "done" =>
                         /\ reqs[k].resp.status \in {400, 500}
                         /\ reqs[k].resp.docs = {})
    /\ [][\A k \in DOMAIN reqs' :
            (Responds(k) /\ reqs'[k].op = "createUser")
            => IF reqs'[k].resp.status = 200
               THEN Cardinality(DOMAIN users') = Cardinality(DOMAIN users) + 1
               ELSE users' = users]_vars

\* three createUser requests for one email all passed findOne before any of
\* them wrote: one inserted, the index rejected the two others
C3_Witness ==
    /\ OnlyCreates
    /\ \E e \in CreateEmails :
          /\ Cardinality(Creates(e)) >= 3
          /\ AllDone(Creates(e))
          /\ Cardinality(Winners(e)) = 1
          /\ \A k \in Creates(e) \ Winners(e) : reqs[k].resp.text = MsgDuplicate

-----------------------------------------------------------------------------
(* C4 *)

\* C4: a createUser, createPost, updateUser or updatePost whose body lacks a
\* required field (absent or empty) responds 400 having made no storage call,
\* and leaves both collections unchanged; for the updates whether or not the
\* path id resolves.
C4_MissingField ==
    /\ [](\A k \in DOMAIN reqs :
            LacksRequired(reqs[k]) =>
                /\ reqs[k].pc = "done"
                /\ reqs[k].resp.status = 400
                /\ reqs[k].resp.kind = "error"
                /\ reqs[k].ops = 0
                /\ reqs[k].sent = 1)
    /\ [][(Len(reqs') = Len(reqs) + 1 /\ LacksRequired(Issued))
            => (users' = users /\ posts' = posts)]_vars

\* 400 was sent to an updateUser whose id is stored, to an updatePost whose id
\* is not and whose userId is the empty string, and to a createUser with an
\* empty email
C4_Witness ==
    \E k, l, m \in DOMAIN reqs :
        /\ Finished(k, "updateUser", 400) /\ reqs[k].id \in DOMAIN users
        /\ Finished(l, "updatePost", 400) /\ reqs[l].id \notin DOMAIN posts
                                          /\ reqs[l].id # BadId
                                          /\ "userId" \in DOMAIN reqs[l].body
                                          /\ reqs[l].body.userId = EmptyId
        /\ Finished(m, "createUser", 400) /\ "email" \in DOMAIN reqs[m].body
                                          /\ reqs[m].body.email = <<>>

-----------------------------------------------------------------------------
(* C5 *)

NameFields == {"firstName", "lastName", "email"}

\* the frame of an updateUser save on user i: nothing but the three editable
\* fields of i may differ
OnlyNamesOf(i) ==
    /\ DOMAIN users' = DOMAIN users
    /\ i \in DOMAIN users
    /\ users'[i].password = users[i].password
    /\ users'[i].isActive = users[i].isActive
    /\ \A j \in DOMAIN users \ {i} : users'[j] = users[j]
    /\ posts' = posts

\* C5 as stated: an updateUser that responds 200 has set the stored firstName,
\* lastName and email of the user to the values of the body and has changed
\* nothing else.
C5_AsClaimed ==
    [][\A k \in DOMAIN reqs :
          (Resumes(k, "updateUser", "save") /\ reqs'[k].resp.status = 200)
          => /\ OnlyNamesOf(reqs[k].id)
             /\ \A fld \in NameFields : users'[reqs[k].id][fld] = reqs[k].body[fld]]_vars

\* C5, amended: an updateUser that responds 200 has written, of firstName,
\* lastName and email, those whose trimmed body value differs from the value
\* its findById read, each set to the trimmed body value; so all three hold
\* the trimmed body values unless another update of the user was saved
\* between its findById and its save.  Password, isActive, every other user
\* and the Posts collection are unchanged, whatever else the body carries.
C5_UpdateUser ==
    [][\A k \in DOMAIN reqs :
          (Resumes(k, "updateUser", "save") /\ reqs'[k].resp.status = 200)
          => LET i == reqs[k].id
                 b == reqs[k].body
                 read == reqs[k].loaded
             IN /\ OnlyNamesOf(i)
                /\ \A fld \in NameFields :
                      users'[i][fld] = IF Stripped(b[fld]) # read[fld]
                                       THEN Stripped(b[fld]) ELSE users[i][fld]
                /\ (\A fld \in NameFields : users[i][fld] = read[fld])
                      => \A fld \in NameFields : users'[i][fld] = Stripped(b[fld])
                /\ \A d \in reqs'[k].resp.docs :
                      \A fld \in NameFields : d[fld] = Stripped(b[fld])]_vars

\* an updateUser whose body is padded and carries a password and another
\* isActive responded 200: the stored names are the trimmed ones, isActive is
\* not the body's
C5_Witness ==
    \E k \in DOMAIN reqs :
        /\ Finished(k, "updateUser", 200)
        /\ "password" \in DOMAIN reqs[k].body
        /\ reqs[k].id \in DOMAIN users
        /\ users[reqs[k].id].isActive # reqs[k].body.isActive
        /\ users[reqs[k].id].password # reqs[k].body.password
        /\ users[reqs[k].id].firstName # reqs[k].body.firstName
        /\ users[reqs[k].id].firstName = Stripped(reqs[k].body.firstName)

-----------------------------------------------------------------------------
(* C6 *)

Deletes(op, i, status) == {k \in DOMAIN reqs : Finished(k, op, status) /\ reqs[k].id = i}

\* C6: of the delete requests for one record id at most one responds 200,
\* with '<R> deleted'; a delete of a stored record responds 200 and removes
\* that record and nothing else; a delete of an id that is not stored, in
\* particular one already deleted, responds 404 and removes nothing.
C6_DeleteOnce ==
    /\ [](\A i \in 1..(MaxId + MaxReq) :
            /\ Cardinality(Deletes("deleteUser", i, 200)) <= 1
            /\ Cardinality(Deletes("deletePost", i, 200)) <= 1
            /\ \A k \in DOMAIN reqs :
                  (reqs[k].op \in {"deleteUser", "deletePost"} /\ reqs[k].id = i)
                  => /\ reqs[k].pc = "done"
                     /\ reqs[k].resp.status \in {200, 404})
    /\ [][ /\ (Starts("deleteUser") /\ Issued.id # BadId)
              => IF Issued.id \in DOMAIN users /\ Issued.id \notin DeletedUserIds
                 THEN /\ Issued.resp = Json(200, "message", "User deleted", {})
                      /\ DOMAIN users' = DOMAIN users \ {Issued.id}
                      /\ \A j \in DOMAIN users' : users'[j] = users[j]
                 ELSE /\ Issued.resp = Json(404, "error", "User not found", {})
                      /\ users' = users
           /\ (Starts("deletePost") /\ Issued.id # BadId)
              => IF Issued.id \in DOMAIN posts /\ Issued.id \notin DeletedPostIds
                 THEN /\ Issued.resp = Json(200, "message", "Post deleted", {})
                      /\ DOMAIN posts' = DOMAIN posts \ {Issued.id}
                      /\ \A j \in DOMAIN posts' : posts'[j] = posts[j]
                 ELSE /\ Issued.resp = Json(404, "error", "Post not found", {})
                      /\ posts' = posts]_vars

\* the same user was deleted twice: 200, then 404; and so was the same post
C6_Witness ==
    /\ \E k, l \in DOMAIN reqs :
          /\ k < l
          /\ Finished(k, "deleteUser", 200)
          /\ Finished(l, "deleteUser", 404)
          /\ reqs[k].id = reqs[l].id
    /\ \E k \in DOMAIN reqs : Finished(k, "deletePost", 200)

-----------------------------------------------------------------------------
(* C7 *)

HasPostFields(b) ==
    /\ ~Lacks(b, "title")
    /\ ~Lacks(b, "content")
    /\ "userId" \in DOMAIN b
    /\ b.userId # EmptyId
    /\ b.userId # BadId

\* the post this step has added to Posts, if it is exactly one
AddedPosts == DOMAIN posts' \ DOMAIN posts

\* C7 as stated: a createPost with non-empty title and content and the
\* (well-formed) id of no stored user as userId stores the post with that
\* userId.
C7_AsClaimed ==
    [][(Starts("createPost") /\ HasPostFields(Issued.body)
           /\ Issued.body.userId \notin DOMAIN users)
          => \E p \in AddedPosts : posts'[p].userId = Issued.body.userId]_vars

\* what populate must give for a post read as v, with the users as they are
\* when populate runs
PopulatedAs(d, v) ==
    /\ d.id = v.id
    /\ d.title = v.title
    /\ d.content = v.content
    /\ v.userId \notin DOMAIN users => d.userId = {}
    /\ v.userId \in DOMAIN users =>
          \E a \in d.userId : a.id = v.userId /\ a.email = users[v.userId].email

\* C7, amended: a createPost whose title and content are not blank (non-empty
\* after trimming) and whose userId is a well-formed id of no stored user
\* stores the post with that userId and responds 200; getPostById and
\* getPosts return every post they have read, and with userId null whenever
\* no user with that id is stored when they populate.
C7_DanglingAuthor ==
    [][/\ (Starts("createPost") /\ HasPostFields(Issued.body)
            /\ Stripped(Issued.body.title) # <<>>
            /\ Stripped(Issued.body.content) # <<>>
            /\ Issued.body.userId \notin DOMAIN users)
          => /\ Issued.pc = "populate"
             /\ \E p \in AddedPosts :
                  /\ AddedPosts = {p}
                  /\ posts'[p].userId = Issued.body.userId
                  /\ posts'[p].title = Stripped(Issued.body.title)
                  /\ Issued.loaded.id = p
             /\ \A p \in DOMAIN posts : p \in DOMAIN posts' /\ posts'[p] = posts[p]
       /\ \A k \in DOMAIN reqs :
            (\/ Resumes(k, "createPost", "populate")
             \/ Resumes(k, "getPostById", "populate"))
            => /\ reqs'[k].pc = "done"
               /\ reqs'[k].resp.status = 200
               /\ \E d \in reqs'[k].resp.docs :
                    reqs'[k].resp.docs = {d} /\ PopulatedAs(d, reqs[k].loaded)
       /\ \A k \in DOMAIN reqs :
            Resumes(k, "getPosts", "populate")
            => /\ reqs'[k].pc = "done"
               /\ reqs'[k].resp.status = 200
               /\ \A v \in reqs[k].loaded :
                    \E d \in reqs'[k].resp.docs : PopulatedAs(d, v)
       /\ (Starts("getPostById") /\ Issued.id \in DOMAIN posts)
          => /\ Issued.pc = "populate"
             /\ Issued.loaded.id = Issued.id
             /\ Issued.loaded.userId = posts[Issued.id].userId
       /\ Starts("getPosts")
          => /\ Issued.pc = "populate"
             /\ {v.id : v \in Issued.loaded} = DOMAIN posts
             /\ \A v \in Issued.loaded : v.userId = posts[v.id].userId]_vars

\* a post was created for a user id that is not stored, and getPostById and
\* getPosts then returned it with userId null
C7_Witness ==
    \E k, l, m \in DOMAIN reqs :
        /\ k < l /\ k < m
        /\ Finished(k, "createPost", 200)
        /\ reqs[k].body.userId \notin DOMAIN users
        /\ Finished(l, "getPostById", 200)
        /\ reqs[l].id = reqs[k].loaded.id
        /\ \A d \in reqs[l].resp.docs : d.userId = {}
        /\ Finished(m, "getPosts", 200)
        /\ \E d \in reqs[m].resp.docs : d.id = reqs[k].loaded.id /\ d.userId = {}

-----------------------------------------------------------------------------
(* C8 *)

\* C8: a deleteUser step leaves Posts as it is; a post whose author has been
\* deleted is still read by getPostById and getPosts, which return it with the
\* author populated as null.
C8_NoCascade ==
    [][/\ Starts("deleteUser") => posts' = posts
       /\ (Starts("getPostById") /\ Issued.id \in DOMAIN posts)
          => /\ Issued.pc = "populate"
             /\ Issued.loaded = [id |-> Issued.id, title |-> posts[Issued.id].title,
                                  content |-> posts[Issued.id].content,
                                  userId |-> posts[Issued.id].userId]
       /\ Starts("getPosts") => {v.id : v \in Issued.loaded} = DOMAIN posts
       /\ \A k \in DOMAIN reqs :
            (Resumes(k, "getPostById", "populate")
               /\ reqs[k].loaded.userId \in DeletedUserIds)
            => /\ reqs'[k].resp.status = 200
               /\ \E d \in reqs'[k].resp.docs : d.id = reqs[k].loaded.id
               /\ \A d \in reqs'[k].resp.docs : d.userId = {}
       /\ \A k \in DOMAIN reqs :
            Resumes(k, "getPosts", "populate")
            => /\ reqs'[k].resp.status = 200
               /\ \A v \in reqs[k].loaded :
                    v.userId \in DeletedUserIds
                    => \E d \in reqs'[k].resp.docs : d.id = v.id /\ d.userId = {}]_vars

\* the author of a stored post was deleted; the post is still stored and a
\* later getPostById and a later getPosts returned it with userId null
C8_Witness ==
    \E k, l, m \in DOMAIN reqs :
        /\ k < l /\ k < m
        /\ Finished(k, "deleteUser", 200)
        /\ Finished(l, "getPostById", 200)
        /\ reqs[l].id \in DOMAIN posts
        /\ posts[reqs[l].id].userId = reqs[k].id
        /\ \A d \in reqs[l].resp.docs : d.userId = {}
        /\ Finished(m, "getPosts", 200)
        /\ \E d \in reqs[m].resp.docs : d.id = reqs[l].id /\ d.userId = {}

-----------------------------------------------------------------------------
(* C9 *)

Allowed(op) ==
    CASE op \in {"getUsers", "getPosts"} -> {200, 500}
      [] op \in {"getUserById", "getPostById", "deleteUser", "deletePost"} -> {200, 404, 500}
      [] op \in {"createUser", "createPost"} -> {200, 400, 500}
      [] op \in {"updateUser", "updatePost"} -> {200, 400, 404, 500}

\* C9: every request of every handler, storage failures at any of its storage
\* calls included, ends in exactly one JSON response whose status the endpoint
\* table allows; a request one of whose storage calls failed responds 500.
C9_AlwaysResponds ==
    /\ [](\A k \in DOMAIN reqs :
            /\ (reqs[k].pc # "done" => reqs[k].sent = 0)
            /\ reqs[k].pc = "done"
                  => /\ reqs[k].sent = 1
                     /\ reqs[k].resp.status \in Allowed(reqs[k].op)
                     /\ reqs[k].resp.kind \in {"error", "message", "doc", "list"}
                     /\ (reqs[k].failed => reqs[k].resp.status = 500))
    /\ \A k \in 1..MaxFaultReq :
            (k \in DOMAIN reqs) ~> (k \in DOMAIN reqs /\ reqs[k].pc = "done")

\* an updatePost failed at its third storage call, populate, and a
\* createUser was refused by the schema: both responded 500
C9_Witness ==
    \E k, l \in DOMAIN reqs :
        /\ Finished(k, "updatePost", 500)
        /\ reqs[k].ops = 3
        /\ reqs[k].resp.text = MsgStorage
        /\ Finished(l, "createUser", 500)
        /\ reqs[l].resp.text = MsgUserValidation

-----------------------------------------------------------------------------
(* C10 *)

\* C10 as stated: once a delete of id i has responded 200, a get-by-id for i
\* that starts afterwards does not respond 200, no list response sent
\* afterwards contains i, and an update that had read i before the delete and
\* saves after it does not respond 200.
C10_AsClaimed ==
    [][ /\ (Starts("getUserById") /\ Issued.id \in DeletedUserIds)
           => (Issued.pc = "done" /\ Issued.resp.status # 200)
        /\ (Starts("getPostById") /\ Issued.id \in DeletedPostIds)
           => (Issued.pc = "done" /\ Issued.resp.status # 200)
        /\ (Starts("getUsers") /\ Issued.pc = "done")
           => \A d \in Issued.resp.docs : d.id \notin DeletedUserIds
        /\ \A k \in DOMAIN reqs :
             (Resumes(k, "getPosts", "populate") /\ reqs'[k].pc = "done")
             => \A d \in reqs'[k].resp.docs : d.id \notin DeletedPostIds
        /\ \A k \in DOMAIN reqs :
             (Resumes(k, "updateUser", "save") /\ reqs[k].id \in DeletedUserIds)
             => (reqs'[k].pc = "done" /\ reqs'[k].resp.status # 200)
        /\ \A k \in DOMAIN reqs :
             (Resumes(k, "updatePost", "save") /\ reqs[k].id \in DeletedPostIds)
             => (reqs'[k].pc = "done" /\ reqs'[k].resp.status # 200)]_vars

\* C10, amended: a record a delete has removed is never stored again: a
\* get-by-id for it that starts after the delete responded gets 404, a list
\* request that starts afterwards does not return it (a getPosts returns no
\* more than the posts its find has read, so one that read the post before
\* the delete may still return it), and an update that had read it before
\* the delete and saves after it responds 500 and writes nothing.
C10_NoResurrection ==
    /\ [](/\ DeletedUserIds \cap DOMAIN users = {}
          /\ DeletedPostIds \cap DOMAIN posts = {})
    /\ [][ /\ (Starts("getUserById") /\ Issued.id \in DeletedUserIds)
              => /\ Issued.pc = "done"
                 /\ Issued.resp.status = 404
           /\ (Starts("getPostById") /\ Issued.id \in DeletedPostIds)
              => /\ Issued.pc = "done"
                 /\ Issued.resp.status = 404
           /\ Starts("getUsers")
              => \A d \in Issued.resp.docs : d.id \notin DeletedUserIds
           /\ Starts("getPosts")
              => \A v \in Issued.loaded : v.id \notin DeletedPostIds
           /\ \A k \in DOMAIN reqs :
                Resumes(k, "getPosts", "populate")
                => {d.id : d \in reqs'[k].resp.docs} \subseteq {v.id : v \in reqs[k].loaded}
           /\ \A k \in DOMAIN reqs :
                (Resumes(k, "updateUser", "save") /\ reqs[k].id \in DeletedUserIds)
                => /\ reqs'[k].pc = "done"
                   /\ reqs'[k].resp.status = 500
                   /\ users' = users
           /\ \A k \in DOMAIN reqs :
                (Resumes(k, "updatePost", "save") /\ reqs[k].id \in DeletedPostIds)
                => /\ reqs'[k].pc = "done"
                   /\ reqs'[k].resp.status = 500
                   /\ posts' = posts]_vars

\* an updateUser read the user, a deleteUser then removed it, the update's
\* save found no document, and a later getUserById got 404
C10_Witness ==
    \E k, l, m \in DOMAIN reqs :
        /\ k < l /\ l < m
        /\ Finished(k, "updateUser", 500)
        /\ reqs[k].resp.text = MsgNoDocument
        /\ Finished(l, "deleteUser", 200)
        /\ reqs[l].id = reqs[k].id
        /\ Finished(m, "getUserById", 404)
        /\ reqs[m].id = reqs[k].id

====
